---------------------------- MODULE Spec2Model ----------------------------
(***************************************************************************)
(* Interaction core of the transform gizmo: the rotation and scale handle  *)
(* state machines (src/src/subgizmo/rotation.rs, scale.rs), the config     *)
(* engine (crates/transform-gizmo/src/config.rs) and the shared picking    *)
(* primitives (crates/transform-gizmo/src/subgizmo/common.rs).             *)
(*                                                                         *)
(* Numbers.  TLA+ has integers only, so every floating point quantity of   *)
(* the program is a fixed-point integer on a grid that is stated where the *)
(* quantity is introduced:                                                 *)
(*   - angles: HalfTurn grid steps make PI, so TAU = 2 * HalfTurn;         *)
(*   - scale ratios, scale vectors, directions: ScaleOne steps make 1.0,   *)
(*     so the program's clamp 1e-4 is one step;                            *)
(*   - dot products and visibility: DotOne steps make 1.0;                 *)
(*   - IEEE infinities and NaN, where the code can produce them, are the   *)
(*     values Inf and NaN.                                                 *)
(* Grid values are taken to be exactly representable in f32 and f64, so    *)
(* the `as f32` / `as f64` narrowing of a grid value keeps it.             *)
(***************************************************************************)
EXTENDS Integers, Sequences, FiniteSets, TLC

VARIABLES
    rot,        \* RotationState of the rotation handle (rotation.rs:248-254)
    rot_cfg,    \* the configuration the rotation handle works with
    rot_active, \* the rotation handle is being dragged
    rot_res,    \* what the last pick()/update() of the rotation handle did
    rot_target, \* the target transform the rotation handle works on
    drag,       \* history of the current rotation drag (for the claims)
    pick_in,    \* the inputs of the picking primitive that is run
    pick_res,   \* the PickResult of the picking primitive that was run
    sc,         \* ScaleState of the scale handle (scale.rs:75-79)
    sc_handle,  \* the handle's transform_kind and direction
    sc_snap,    \* config.snap_scale during the drag
    sc_active,  \* the scale handle is being dragged
    sc_opacity, \* the handle's opacity (scale.rs:23)
    sc_res,     \* what the last pick()/update() of the scale handle did
    prepared,   \* the PreparedGizmoConfig (config.rs:92-114)
    cfg_targets, \* the targets of the last update_for_targets, if any
    cfg_patched \* that call ran on a configuration an earlier call changed

vars == <<rot, rot_cfg, rot_active, rot_res, rot_target, drag, pick_in,
          pick_res,
          sc, sc_handle, sc_snap, sc_active, sc_opacity, sc_res,
          prepared, cfg_targets, cfg_patched>>

cfg_vars == <<prepared, cfg_targets, cfg_patched>>

----------------------------------------------------------------------------
(* Bounds of the model *)

\* grid steps in a half turn (PI); angles are integers in -HalfTurn..HalfTurn
HalfTurn == 4
\* a drag is followed for at most this many full turns in either direction
MaxTurns == 1
\* the largest ray parameter of a hit
MaxRayT == 2
\* the largest screen distance (pixels) of the cursor from the gizmo
MaxDist == 4

----------------------------------------------------------------------------
(* Helpers *)

None == "None"

Abs(x) == IF x < 0 THEN -x ELSE x

\* f64::round of n/d for d > 0: nearest integer, halves away from zero
RoundDiv(n, d) ==
    IF n >= 0 THEN (2 * n + d) \div (2 * d)
              ELSE -((2 * (-n) + d) \div (2 * d))

PI == HalfTurn
TAU == 2 * HalfTurn

\* the values atan2 can return on the grid
Angles == (-HalfTurn)..HalfTurn

----------------------------------------------------------------------------
(* Option<T>: None is the empty sequence, Some(x) the one-element sequence *)

NoneV == <<>>
Some(x) == <<x>>
IsSome(o) == Len(o) = 1
Unwrap(o) == o[1]
\* Option::unwrap_or
UnwrapOr(o, d) == IF IsSome(o) THEN o[1] ELSE d

----------------------------------------------------------------------------
(* Geometry kernel *)

\* round_to_interval(value, step) = round(value / step) * step, and the
\* identity for step = 0
RoundToInterval(val, interval) ==
    IF interval = 0 THEN val
    ELSE IF interval > 0 THEN RoundDiv(val, interval) * interval
    ELSE RoundDiv(-val, -interval) * interval

----------------------------------------------------------------------------
(* The pointer as the rotation handle sees it: where the cursor is with    *)
(* respect to the gizmo's projected origin.                                *)
(*   none      ui.input(|i| i.pointer.hover_pos()) is None                 *)
(*   offscreen world_to_screen(viewport, mvp, origin) is None              *)
(*   center    the cursor is exactly on the projected origin               *)
(*   at        the cursor is elsewhere; angle = atan2(delta.y, delta.x)    *)

Pointers ==
    {[kind |-> k, angle |-> 0] : k \in {"none", "offscreen", "center"}}
    \cup {[kind |-> "at", angle |-> a] : a \in Angles}

\* a rotation_angle() that reads a cursor on the projected origin as angle 0
rotation_angle_of_zero_delta(p, flipped) ==
    IF p.kind = "none" THEN NoneV
    ELSE IF p.kind = "offscreen" THEN NoneV
    ELSE LET angle == p.angle
         IN  Some(IF flipped THEN angle * (-1) ELSE angle)

\* where the cursor is when a drag starts
PickPointers ==
    {[kind |-> k, angle |-> 0] : k \in {"none", "offscreen", "center"}}
    \cup {[kind |-> "at", angle |-> a] : a \in {0, HalfTurn - 1, -HalfTurn}}

\* rotation_angle(): the screen angle of the cursor about the gizmo, negated
\* when the handle's normal points away from the view direction
\* (flipped = view_forward . normal < 0); None without a cursor, without a
\* projection of the origin, or when the normalized delta is NaN
rotation_angle(p, flipped) ==
    IF p.kind = "none" THEN NoneV
    ELSE IF p.kind = "offscreen" THEN NoneV
    ELSE IF p.kind = "center" THEN NoneV
    ELSE LET angle == p.angle
         IN  Some(IF flipped THEN angle * (-1) ELSE angle)

----------------------------------------------------------------------------
(* Rotation handle (RotationSubGizmo) *)

\* snap increments the host may configure (grid steps)
SnapAngles == {1, HalfTurn - 1}

\* the part of the configuration the rotation handle reads: the snap
\* increment and whether view_forward . normal < 0.  The host keeps both
\* for the length of a drag; snapping itself is toggled frame by frame.
RotConfigs == [snap_angle : SnapAngles, flipped : BOOLEAN]

\* what pick() finds for the ray: angle, the angle of the hit about the
\* rotation axis (stored as start_axis_angle); edge_ok, whether
\* dist_from_gizmo_edge <= focus_distance; arc, the value of arc_angle(),
\* between a quarter turn and a half turn.  A hit on the arc, a ray outside
\* the arc, a ray inside the full circle's arc but too far from the edge.
RayHits ==
    {[angle |-> 0, edge_ok |-> TRUE, arc |-> HalfTurn \div 2],
     [angle |-> HalfTurn - 1, edge_ok |-> TRUE, arc |-> HalfTurn \div 2],
     [angle |-> HalfTurn - 1, edge_ok |-> TRUE, arc |-> HalfTurn],
     [angle |-> HalfTurn - 1, edge_ok |-> FALSE, arc |-> HalfTurn]}

RotationStateDefault ==
    [start_axis_angle |-> 0, start_rotation_angle |-> 0,
     last_rotation_angle |-> 0, current_delta |-> 0]

\* the pointer a call ran with, as the result records it
NoPointer == [kind |-> "none", angle |-> 0]

\* The target's rotation is R(normal, rotation) * q, with q its rotation
\* when the handle was last picked: rotation is an angle about the handle's
\* normal, modulo a full turn.  The handle's normal is the same in every
\* frame of a drag: a rotation about the normal leaves it where it is.
\* The scale is (0.5, 1, 2) and the translation (1, -2, 0), with 10000
\* steps to one.
TargetAtPick ==
    [rotation |-> 0,
     scale |-> <<5000, 10000, 20000>>,
     translation |-> <<10000, -20000, 0>>]

\* a rotation by the increment itself
NewRotationNotNegated(rotation, angle_delta) ==
    (rotation + angle_delta) % TAU

\* rotation.rs:82-83: from_axis_angle(normal, -angle_delta) * config.rotation
NewRotation(rotation, angle_delta) ==
    (rotation - angle_delta) % TAU

NoRotRes ==
    [op |-> "none", ret |-> "None", prev |-> 0, angle_delta |-> 0,
     value |-> 0, snapping |-> FALSE, pointer |-> NoPointer,
     rotation |-> 0, scale |-> <<0, 0, 0>>, translation |-> <<0, 0, 0>>]

NoDrag == [a0 |-> 0, a |-> 0, net |-> 0, half_step |-> FALSE,
           snapped |-> FALSE]

RotInit ==
    /\ rot = RotationStateDefault
    /\ rot_cfg = [snap_angle |-> 1, flipped |-> FALSE]
    /\ rot_active = FALSE
    /\ rot_res = NoRotRes
    /\ rot_target = TargetAtPick
    /\ drag = NoDrag

\* the plain difference of the two angles, not wrapped
AngleDeltaNoWrap(rotation_angle_, last_rotation_angle) ==
    rotation_angle_ - last_rotation_angle

\* rotation.rs:68-75: the increment since the previous frame, taken the
\* short way round
AngleDelta(rotation_angle_, last_rotation_angle) ==
    LET angle_delta == rotation_angle_ - last_rotation_angle
    IN  IF angle_delta > PI THEN angle_delta - TAU
        ELSE IF angle_delta < -PI THEN angle_delta + TAU
        ELSE angle_delta

\* a pick() that keeps the accumulated delta of the drag before
PickStateStale(state, angle, ra) ==
    [state EXCEPT !.start_axis_angle = angle,
                  !.start_rotation_angle = ra,
                  !.last_rotation_angle = ra]

\* rotation.rs:41-47: the state written by pick()
PickState(state, angle, ra) ==
    [start_axis_angle |-> angle,
     start_rotation_angle |-> ra,
     last_rotation_angle |-> ra,
     current_delta |-> 0]

\* the step from screen angle p to screen angle c taken the short way round:
\* the d with -PI <= d < PI and d = c - p modulo a full turn
ShortStep(p, c) == ((c - p + HalfTurn) % TAU) - HalfTurn

\* History of a drag: the pointer angle a0 at pick, the last pointer angle a,
\* and net, the angle travelled from a0 counted the short way round at every
\* step.  The history is followed while every update ran with snapping off
\* and no step was exactly a half turn (whose direction is ambiguous); after
\* that only the flags are kept.
DragStep(d, raw, snapping) ==
    LET half == d.half_step \/ Abs(ShortStep(d.a, raw)) = HalfTurn
        snap == d.snapped \/ snapping
    IN  IF half \/ snap
        THEN [a0 |-> 0, a |-> 0, net |-> 0, half_step |-> half,
              snapped |-> snap]
        ELSE [a0 |-> d.a0, a |-> raw, net |-> d.net + ShortStep(d.a, raw),
              half_step |-> FALSE, snapped |-> FALSE]

\* pick(): rotation.rs:14-54.  The state is written whether or not the
\* handle is hit.
RotationPick(config, p, ray) ==
    /\ UNCHANGED cfg_vars
    /\ ~rot_active
    /\ LET ra == UnwrapOr(rotation_angle(p, config.flipped), 0)
           angle == ray.angle
           hit == ray.edge_ok /\ Abs(angle) < ray.arc
       IN  /\ rot' = PickState(rot, angle, ra)
           /\ rot_cfg' = config
           /\ rot_active' = hit
           /\ rot_res' = [NoRotRes EXCEPT !.op = "pick",
                             !.ret = IF hit THEN "Some" ELSE "None",
                             !.pointer = p]
           /\ rot_target' = [rot_target EXCEPT !.rotation = 0]
           /\ drag' = [NoDrag EXCEPT !.a0 = ra, !.a = ra]
           /\ UNCHANGED <<pick_in, pick_res>>
    /\ UNCHANGED <<sc, sc_handle, sc_snap, sc_active, sc_opacity, sc_res>>

\* update(): rotation.rs:56-92, the early return of line 60
RotationUpdateNone(p) ==
    /\ UNCHANGED cfg_vars
    /\ UNCHANGED rot_target
    /\ rot_active
    /\ ~IsSome(rotation_angle(p, rot_cfg.flipped))
    /\ rot_res' = [NoRotRes EXCEPT !.op = "update", !.pointer = p]
    /\ UNCHANGED <<rot, rot_cfg, rot_active, drag>>
    /\ UNCHANGED <<pick_in, pick_res>>
    /\ UNCHANGED <<sc, sc_handle, sc_snap, sc_active, sc_opacity, sc_res>>

\* update(): rotation.rs:56-92 with a pointer angle.  value is computed from
\* the copy of the state taken on entry (line 57).  The host applies the
\* result to the target before the next frame: config.rotation, config.scale
\* and config.translation of that frame are those of the result.
RotationUpdate(p, snapping) ==
    /\ UNCHANGED cfg_vars
    /\ rot_active
    /\ IsSome(rotation_angle(p, rot_cfg.flipped))
    /\ LET state == rot
           raw == Unwrap(rotation_angle(p, rot_cfg.flipped))
           ra == IF snapping
                 THEN RoundToInterval(raw - state.start_rotation_angle,
                                      rot_cfg.snap_angle)
                          + state.start_rotation_angle
                 ELSE raw
           angle_delta == AngleDelta(ra, state.last_rotation_angle)
           new_rotation == NewRotation(rot_target.rotation, angle_delta)
       IN  /\ Abs(state.current_delta + angle_delta) <= MaxTurns * TAU
           /\ rot' = [rot EXCEPT !.last_rotation_angle = ra,
                                 !.current_delta = @ + angle_delta]
           /\ rot_res' = [op |-> "update", ret |-> "Some",
                          prev |-> state.last_rotation_angle,
                          angle_delta |-> angle_delta,
                          value |-> state.current_delta,
                          snapping |-> snapping,
                          pointer |-> [kind |-> p.kind, angle |-> 0],
                          rotation |-> new_rotation,
                          scale |-> rot_target.scale,
                          translation |-> rot_target.translation]
           /\ rot_target' = [rotation |-> new_rotation,
                             scale |-> rot_target.scale,
                             translation |-> rot_target.translation]
           /\ drag' = DragStep(drag, raw, snapping)
           /\ UNCHANGED <<rot_active, rot_cfg, pick_in, pick_res>>
           /\ UNCHANGED <<sc, sc_handle, sc_snap, sc_active, sc_opacity, sc_res>>

\* the pointer button is released: the handle goes back to idle
RotationRelease ==
    /\ UNCHANGED cfg_vars
    /\ UNCHANGED rot_target
    /\ rot_active
    /\ rot_active' = FALSE
    /\ rot_res' = [NoRotRes EXCEPT !.op = "release"]
    /\ UNCHANGED <<rot, rot_cfg, drag>>
    /\ UNCHANGED <<pick_in, pick_res>>
    /\ UNCHANGED <<sc, sc_handle, sc_snap, sc_active, sc_opacity, sc_res>>

NextRotation ==
    \/ \E config \in RotConfigs, p \in PickPointers, ray \in RayHits :
            RotationPick(config, p, ray)
    \/ \E p \in Pointers : RotationUpdateNone(p)
    \/ \E p \in Pointers, snapping \in BOOLEAN : RotationUpdate(p, snapping)
    \/ RotationRelease

----------------------------------------------------------------------------
(* Picking primitives (subgizmo/common.rs)                                 *)
(*                                                                         *)
(* World lengths and scale_factor are fixed-point with ScaleOne steps to   *)
(* 1.0; dot products and visibility are fixed-point with DotOne steps to   *)
(* 1.0; gizmo_size and stroke_width are pixels.                            *)

\* 1.0 for scale ratios, scale vectors and world lengths: the clamp 1e-4 of
\* scale.rs:45 is one step
ScaleOne == 10000

\* 1.0 for dot products and visibility: the fade bands are given in 1/100
DotOne == 100

\* const ARROW_FADE: RangeInclusive<f64> = 0.95..=0.99
ARROW_FADE_start == 95
ARROW_FADE_end == 99
\* const PLANE_FADE: RangeInclusive<f64> = 0.70..=0.86
PLANE_FADE_start == 70
PLANE_FADE_end == 86

Min(a, b) == IF a <= b THEN a ELSE b
Max(a, b) == IF a >= b THEN a ELSE b

\* focus_distance = scale_factor * (stroke_width / 2.0 + 5.0)
FocusDistance(scale_factor, stroke_width) ==
    RoundDiv(scale_factor * (stroke_width + 10), 2)

\* the fields of PreparedGizmoConfig the picking primitives read
PickConfig(scale_factor, gizmo_size, stroke_width) ==
    [scale_factor |-> scale_factor,
     focus_distance |-> FocusDistance(scale_factor, stroke_width),
     gizmo_size |-> gizmo_size,
     stroke_width |-> stroke_width]

\* plane_size(): scale_factor * (gizmo_size * 0.1 + stroke_width * 2.0)
plane_size(config) ==
    RoundDiv(config.scale_factor
                 * (config.gizmo_size + 20 * config.stroke_width), 10)

\* draw_plane(), common.rs:227: the half-extent of the drawn patch
draw_plane_scale(config) == RoundDiv(plane_size(config), 2)

\* pick_arrow(), common.rs:57-60: visibility from dot = |eye_to_model_dir . dir|
ArrowVisibility(dot) ==
    Min(DotOne - RoundDiv((dot - ARROW_FADE_start) * DotOne,
                          ARROW_FADE_end - ARROW_FADE_start), DotOne)

\* a visibility that fades as the plane turns face-on
PlaneVisibilityFaceOnFade(dot) ==
    Min(DotOne - RoundDiv((dot - PLANE_FADE_start) * DotOne,
                          PLANE_FADE_end - PLANE_FADE_start), DotOne)

\* pick_plane(), common.rs:85-91: visibility from
\* dot = |eye_to_model_dir . normal|
PlaneVisibility(dot) ==
    Min(DotOne - RoundDiv(((DotOne - dot) - PLANE_FADE_start) * DotOne,
                          PLANE_FADE_end - PLANE_FADE_start), DotOne)

\* a hit test that ignores the visibility
PlanePickedNoFade(visibility, dist_from_origin, config) ==
    dist_from_origin <= plane_size(config)

\* pick_plane(), common.rs:93
PlanePicked(visibility, dist_from_origin, config) ==
    visibility > 0 /\ dist_from_origin <= plane_size(config)

\* pick_arrow(): common.rs:32-70.  dist is the distance between the ray and
\* the arrow's segment and ray_t the ray parameter, both from
\* segment_to_segment; dot is |eye_to_model_dir . dir|.
pick_arrow(config, dot, dist, ray_t) ==
    LET visibility == ArrowVisibility(dot)
        picked == visibility > 0 /\ dist <= config.focus_distance
    IN  [fn |-> "arrow", visibility |-> visibility, picked |-> picked,
         t |-> ray_t]

\* pick_plane(): common.rs:72-101.  t and dist_from_origin are the result of
\* ray_to_plane_origin; dot is |eye_to_model_dir . normal|.
pick_plane(config, dot, dist_from_origin, t) ==
    LET visibility == PlaneVisibility(dot)
        picked == PlanePicked(visibility, dist_from_origin, config)
    IN  [fn |-> "plane", visibility |-> visibility, picked |-> picked,
         t |-> t]

\* pick_circle(): common.rs:103-129
pick_circle(config, dist_from_gizmo_origin, t, radius, filled) ==
    LET picked ==
            IF filled
            THEN dist_from_gizmo_origin <= radius + config.focus_distance
            ELSE Abs(dist_from_gizmo_origin - radius) <= config.focus_distance
    IN  [fn |-> "circle", visibility |-> DotOne, picked |-> picked, t |-> t]

\* the configurations the primitives are tried with: the default visuals
\* (stroke_width 4, gizmo_size 75) and a thicker, larger gizmo, at the scale
\* factors of a near and a far camera
PickConfigs ==
    {PickConfig(sf, v[1], v[2]) : sf \in {50, 100}, v \in {<<75, 4>>, <<100, 6>>}}

\* |a . b| of two unit vectors, or of the zero vector eye_to_model_dir
Dots == 0..DotOne

\* distances from the ray to the handle that matter to the hit tests
RayDists(config) ==
    {0, config.focus_distance, config.focus_distance + 1,
     draw_plane_scale(config), draw_plane_scale(config) + 1,
     plane_size(config), plane_size(config) + 1}

\* ray parameters of the hit
RayTs == {1, MaxRayT}

\* the inputs of a picking primitive: the configuration, the dot product of
\* the view direction with the handle's direction, the distance and ray
\* parameter found by the geometry kernel, and pick_circle's radius and filled
PickInputs ==
    UNION {[config : {config}, dot : Dots, dist : RayDists(config),
            t : RayTs, radius : {0, plane_size(config)}, filled : BOOLEAN]
           : config \in PickConfigs}

DefaultPickInput ==
    [config |-> PickConfig(50, 75, 4), dot |-> 0, dist |-> 0, t |-> 1,
     radius |-> 0, filled |-> FALSE]

NoPickRes == [fn |-> "none", visibility |-> 0, picked |-> FALSE, t |-> 0]

PickInit ==
    /\ pick_in = DefaultPickInput
    /\ pick_res = NoPickRes

PickArrow ==
    /\ UNCHANGED cfg_vars
    /\ UNCHANGED rot_target
    /\ pick_res.fn = "none"
    /\ pick_res' = pick_arrow(pick_in.config, pick_in.dot, pick_in.dist,
                              pick_in.t)
    /\ UNCHANGED <<rot, rot_cfg, rot_active, rot_res, drag, pick_in>>
    /\ UNCHANGED <<sc, sc_handle, sc_snap, sc_active, sc_opacity, sc_res>>

PickPlane ==
    /\ UNCHANGED cfg_vars
    /\ UNCHANGED rot_target
    /\ pick_res.fn = "none"
    /\ pick_res' = pick_plane(pick_in.config, pick_in.dot, pick_in.dist,
                              pick_in.t)
    /\ UNCHANGED <<rot, rot_cfg, rot_active, rot_res, drag, pick_in>>
    /\ UNCHANGED <<sc, sc_handle, sc_snap, sc_active, sc_opacity, sc_res>>

PickCircle ==
    /\ UNCHANGED cfg_vars
    /\ UNCHANGED rot_target
    /\ pick_res.fn = "none"
    /\ pick_res' = pick_circle(pick_in.config, pick_in.dist, pick_in.t,
                               pick_in.radius, pick_in.filled)
    /\ UNCHANGED <<rot, rot_cfg, rot_active, rot_res, drag, pick_in>>
    /\ UNCHANGED <<sc, sc_handle, sc_snap, sc_active, sc_opacity, sc_res>>

NextPick == PickArrow \/ PickPlane \/ PickCircle

----------------------------------------------------------------------------
(* IEEE arithmetic where the scale handle can leave the finite numbers.    *)
(* A float is [k, v]: k = "fin" with the fixed-point value v, k = "inf"    *)
(* with the sign v, or k = "nan".                                          *)

FIN(n) == [k |-> "fin", v |-> n]
INF == [k |-> "inf", v |-> 1]
NEG_INF == [k |-> "inf", v |-> -1]
NAN == [k |-> "nan", v |-> 0]

Sign(n) == IF n > 0 THEN 1 ELSE IF n < 0 THEN -1 ELSE 0

\* current_distance / start_distance of two screen distances (pixels, >= 0),
\* as a ratio with ScaleOne steps to 1.0: x / 0 is +inf, 0 / 0 is NaN
FDiv(a, b) ==
    IF b = 0 THEN (IF a = 0 THEN NAN ELSE INF)
    ELSE FIN(RoundDiv(a * ScaleOne, b))

\* round_to_interval on a float: inf and NaN pass through
FRoundToInterval(x, interval) ==
    IF x.k = "fin" THEN FIN(RoundToInterval(x.v, interval)) ELSE x

\* f64::max(x, m) with m finite: a NaN argument is ignored
FMax(x, m) ==
    IF x.k = "nan" THEN FIN(m)
    ELSE IF x.k = "inf" THEN (IF x.v > 0 THEN x ELSE FIN(m))
    ELSE FIN(Max(x.v, m))

\* x - c and x + c with c finite
FSub(x, c) == IF x.k = "fin" THEN FIN(x.v - c) ELSE x
FAdd(x, c) == IF x.k = "fin" THEN FIN(x.v + c) ELSE x

\* c * x with c finite and both with ScaleOne steps to 1.0: 0 * inf is NaN
FMulDir(c, x) ==
    IF x.k = "fin" THEN FIN(RoundDiv(c * x.v, ScaleOne))
    ELSE IF x.k = "nan" THEN NAN
    ELSE IF c = 0 THEN NAN
    ELSE [k |-> "inf", v |-> Sign(c) * x.v]

\* c * x with c finite; the finite product is kept exact, with
\* ScaleOne * ScaleOne steps to 1.0
FMulExact(c, x) ==
    IF x.k = "fin" THEN FIN(c * x.v)
    ELSE IF x.k = "nan" THEN NAN
    ELSE IF c = 0 THEN NAN
    ELSE [k |-> "inf", v |-> Sign(c) * x.v]

\* x > 0.0 (false for NaN)
FPositive(x) ==
    \/ x.k = "fin" /\ x.v > 0
    \/ x.k = "inf" /\ x.v > 0

\* floor of the square root
RECURSIVE SqrtBetween(_, _, _)
SqrtBetween(n, lo, hi) ==
    IF lo >= hi THEN lo
    ELSE LET mid == (lo + hi + 1) \div 2
         IN  IF mid * mid <= n THEN SqrtBetween(n, mid, hi)
             ELSE SqrtBetween(n, lo, mid - 1)

ISqrt(n) == SqrtBetween(n, 0, Min(n, 46340))

\* DVec3::normalize of a non-zero vector with ScaleOne steps to 1.0
Normalize(v) ==
    LET len == ISqrt(v[1] * v[1] + v[2] * v[2] + v[3] * v[3])
    IN  <<RoundDiv(v[1] * ScaleOne, len), RoundDiv(v[2] * ScaleOne, len),
          RoundDiv(v[3] * ScaleOne, len)>>

----------------------------------------------------------------------------
(* Scale handle (ScaleSubGizmo) *)

\* delta.max(1e-4): the smallest ratio a drag can produce
MinScaleRatio == 1

Kinds == {"Axis", "Plane"}
\* the scale handles are built for the three axes and the three planes
ScaleDirections == {"X", "Y", "Z"}

DVec3_X == <<ScaleOne, 0, 0>>
DVec3_Y == <<0, ScaleOne, 0>>
DVec3_Z == <<0, 0, ScaleOne>>
DVec3_ZERO == <<0, 0, 0>>
DVec3_ONE == <<ScaleOne, ScaleOne, ScaleOne>>

\* gizmo_local_normal() / SubGizmoConfig::local_normal()
local_normal(direction) ==
    CASE direction = "X" -> DVec3_X
      [] direction = "Y" -> DVec3_Y
      [] direction = "Z" -> DVec3_Z

\* plane_bitangent() (plane_binormal in scale.rs)
plane_binormal(direction) ==
    CASE direction = "X" -> DVec3_Y
      [] direction = "Y" -> DVec3_Z
      [] direction = "Z" -> DVec3_X

\* plane_tangent()
plane_tangent(direction) ==
    CASE direction = "X" -> DVec3_Z
      [] direction = "Y" -> DVec3_X
      [] direction = "Z" -> DVec3_Y

VAdd(a, b) == <<a[1] + b[1], a[2] + b[2], a[3] + b[3]>>

\* scale.rs:47-53: the direction the ratio is applied along
ScaleDirection(kind, direction) ==
    IF kind = "Plane"
    THEN LET binormal == plane_binormal(direction)
             tangent == plane_tangent(direction)
         IN  Normalize(VAdd(binormal, tangent))
    ELSE local_normal(direction)

\* the offset of a ratio that is never snapped
ScaleDeltaNoSnap(ratio, snapping, snap_scale) ==
    FSub(FMax(ratio, MinScaleRatio), ScaleOne)

\* scale.rs:42-45: the ratio is snapped, then clamped, then made an offset
\* from one
ScaleDelta(ratio, snapping, snap_scale) ==
    LET snapped == IF snapping THEN FRoundToInterval(ratio, snap_scale)
                   ELSE ratio
    IN  FSub(FMax(snapped, MinScaleRatio), ScaleOne)

\* scale.rs:55: offset = DVec3::ONE + direction * delta
ScaleOffset(direction, delta) ==
    <<FAdd(FMulDir(direction[1], delta), ScaleOne),
      FAdd(FMulDir(direction[2], delta), ScaleOne),
      FAdd(FMulDir(direction[3], delta), ScaleOne)>>

\* scale.rs:56: new_scale = start_scale * offset, componentwise; the product
\* has ScaleOne * ScaleOne steps to 1.0
NewScale(start_scale, offset) ==
    <<FMulExact(start_scale[1], offset[1]),
      FMulExact(start_scale[2], offset[2]),
      FMulExact(start_scale[3], offset[3])>>

\* the pointer as the scale handle sees it: no cursor, no projection of the
\* gizmo's origin, or the cursor at a screen distance (pixels) from it
ScalePointers ==
    {[kind |-> k, dist |-> 0] : k \in {"none", "offscreen"}}
    \cup {[kind |-> "at", dist |-> d] : d \in 0..MaxDist}

\* distance_from_origin_2d(): scale.rs:83-89
distance_from_origin_2d(p) ==
    IF p.kind = "none" THEN NoneV
    ELSE IF p.kind = "offscreen" THEN NoneV
    ELSE Some(p.dist)

\* the averaged scale of the targets (config.scale) when the handle is picked
ConfigScales ==
    {DVec3_ONE, <<ScaleOne \div 2, ScaleOne, 2 * ScaleOne>>,
     <<ScaleOne, 0, -ScaleOne>>}

\* snap increments the host may configure: 0.1, 0.25 and none
SnapScales == {ScaleOne \div 10, ScaleOne \div 4, 0}

\* what the handle's pick() is tried with from the picking primitives
ScalePickInputs ==
    {[DefaultPickInput EXCEPT !.dot = d, !.dist = r] :
        d \in {0, DotOne \div 2, DotOne},
        r \in {0, 2 * plane_size(DefaultPickInput.config)}}

ScaleStateDefault == [start_scale |-> DVec3_ZERO, start_delta |-> 0]

NoVec == <<FIN(0), FIN(0), FIN(0)>>

NoScaleRes ==
    [op |-> "none", ret |-> "None", ratio |-> FIN(0), snapping |-> FALSE,
     scale |-> NoVec, value |-> NoVec,
     pointer |-> [kind |-> "none", dist |-> 0], config_scale |-> DVec3_ZERO,
     rotation |-> <<<<1, 0, 0>>, <<0, 1, 0>>, <<0, 0, 1>>>>,
     translation |-> DVec3_ZERO]

ScaleInit ==
    /\ sc = ScaleStateDefault
    /\ sc_handle = [kind |-> "Axis", direction |-> "X"]
    /\ sc_snap = 0
    /\ sc_active = FALSE
    /\ sc_opacity = 0
    /\ sc_res = NoScaleRes

\* pick(): scale.rs:15-35, the early return of line 21
ScalePickNone(p) ==
    /\ UNCHANGED cfg_vars
    /\ UNCHANGED rot_target
    /\ ~sc_active
    /\ ~IsSome(distance_from_origin_2d(p))
    /\ sc_res' = [NoScaleRes EXCEPT !.op = "pick", !.pointer = p]
    /\ UNCHANGED <<sc, sc_handle, sc_snap, sc_active, sc_opacity>>
    /\ UNCHANGED <<rot, rot_cfg, rot_active, rot_res, drag, pick_in, pick_res>>

\* pick(): scale.rs:15-35.  config_scale is config.scale, snap_scale the snap
\* increment the host keeps for the drag, in the inputs of the picking
\* primitive.
ScalePick(p, config_scale, snap_scale, in) ==
    /\ UNCHANGED cfg_vars
    /\ UNCHANGED rot_target
    /\ ~sc_active
    /\ IsSome(distance_from_origin_2d(p))
    /\ LET pick_result ==
               IF sc_handle.kind = "Axis"
               THEN pick_arrow(in.config, in.dot, in.dist, in.t)
               ELSE pick_plane(in.config, in.dot, in.dist, in.t)
           start_delta == Unwrap(distance_from_origin_2d(p))
       IN  /\ sc_opacity' = pick_result.visibility
           /\ sc' = [start_scale |-> config_scale,
                     start_delta |-> start_delta]
           /\ sc_snap' = snap_scale
           /\ sc_active' = pick_result.picked
           /\ sc_res' = [NoScaleRes EXCEPT !.op = "pick",
                            !.ret = IF pick_result.picked THEN "Some"
                                    ELSE "None",
                            !.pointer = p,
                            !.config_scale = config_scale]
    /\ UNCHANGED sc_handle
    /\ UNCHANGED <<rot, rot_cfg, rot_active, rot_res, drag, pick_in, pick_res>>

\* update(): scale.rs:37-65, the early return of line 39
ScaleUpdateNone(p) ==
    /\ UNCHANGED cfg_vars
    /\ UNCHANGED rot_target
    /\ sc_active
    /\ ~IsSome(distance_from_origin_2d(p))
    /\ sc_res' = [NoScaleRes EXCEPT !.op = "update", !.pointer = p]
    /\ UNCHANGED <<sc, sc_handle, sc_snap, sc_active, sc_opacity>>
    /\ UNCHANGED <<rot, rot_cfg, rot_active, rot_res, drag, pick_in, pick_res>>

\* update(): scale.rs:37-65
ScaleUpdate(p, snapping) ==
    /\ UNCHANGED cfg_vars
    /\ UNCHANGED rot_target
    /\ sc_active
    /\ IsSome(distance_from_origin_2d(p))
    /\ LET state == sc
           ratio == FDiv(Unwrap(distance_from_origin_2d(p)),
                         state.start_delta)
           delta == ScaleDelta(ratio, snapping, sc_snap)
           direction == ScaleDirection(sc_handle.kind, sc_handle.direction)
           offset == ScaleOffset(direction, delta)
           new_scale == NewScale(state.start_scale, offset)
       IN  sc_res' = [op |-> "update", ret |-> "Some", ratio |-> ratio,
                      snapping |-> snapping,
                      scale |-> new_scale, value |-> offset,
                      pointer |-> p, config_scale |-> DVec3_ZERO,
                      rotation |-> prepared.rotation,
                      translation |-> prepared.translation]
    /\ UNCHANGED <<sc, sc_handle, sc_snap, sc_active, sc_opacity>>
    /\ UNCHANGED <<rot, rot_cfg, rot_active, rot_res, drag, pick_in, pick_res>>

\* the pointer button is released: the handle goes back to idle
ScaleRelease ==
    /\ UNCHANGED cfg_vars
    /\ UNCHANGED rot_target
    /\ sc_active
    /\ sc_active' = FALSE
    /\ sc_res' = [NoScaleRes EXCEPT !.op = "release"]
    /\ UNCHANGED <<sc, sc_handle, sc_snap, sc_opacity>>
    /\ UNCHANGED <<rot, rot_cfg, rot_active, rot_res, drag, pick_in, pick_res>>

NextScale ==
    \/ \E p \in ScalePointers : ScalePickNone(p)
    \/ \E p \in ScalePointers, config_scale \in ConfigScales,
          snap_scale \in SnapScales, in \in ScalePickInputs :
            ScalePick(p, config_scale, snap_scale, in)
    \/ \E p \in ScalePointers : ScaleUpdateNone(p)
    \/ \E p \in ScalePointers, snapping \in BOOLEAN : ScaleUpdate(p, snapping)
    \/ ScaleRelease

----------------------------------------------------------------------------
(* The working configuration: PreparedGizmoConfig, config.rs:92-208.       *)
(* view_matrix, projection_matrix and view_projection hold plain integers;  *)
(* target transforms, the model matrix, mvp, translation and scale have    *)
(* CfgOne steps to one world unit (the homogeneous 1 is CfgOne); a DQuat   *)
(* is its 3x3 rotation matrix; a unit DVec3 direction is the shortest      *)
(* integer vector of that direction; a screen position is a pair of         *)
(* fractions x/d, y/d in lowest terms.                                      *)

\* steps of one world unit: every target count divides it
CfgOne == 12
\* the largest number of targets handed to update_for_targets
MaxTargets == 2

RECURSIVE GCD(_, _)
GCD(a, b) == IF b = 0 THEN Abs(a) ELSE GCD(b, a % Abs(b))

\* n / d for d # 0, rounded to the nearest step
FracDiv(n, d) == RoundDiv(n * Sign(d), Abs(d))

Idx3 == 1..3
Idx4 == 1..4

DMat4_IDENTITY ==
    <<<<1, 0, 0, 0>>, <<0, 1, 0, 0>>, <<0, 0, 1, 0>>, <<0, 0, 0, 1>>>>

\* DMat4 * DMat4
MatMul(A, B) ==
    [i \in Idx4 |-> [j \in Idx4 |->
        A[i][1] * B[1][j] + A[i][2] * B[2][j]
            + A[i][3] * B[3][j] + A[i][4] * B[4][j]]]

\* DMat4 * DVec4
MatVec(A, v) ==
    [i \in Idx4 |->
        A[i][1] * v[1] + A[i][2] * v[2] + A[i][3] * v[3] + A[i][4] * v[4]]

MatScale(A, k) == [i \in Idx4 |-> [j \in Idx4 |-> A[i][j] * k]]

\* determinant of the 3x3 matrix of the rows r and columns c of M
Det3(M, r, c) ==
      M[r[1]][c[1]] * (M[r[2]][c[2]] * M[r[3]][c[3]]
                          - M[r[2]][c[3]] * M[r[3]][c[2]])
    - M[r[1]][c[2]] * (M[r[2]][c[1]] * M[r[3]][c[3]]
                          - M[r[2]][c[3]] * M[r[3]][c[1]])
    + M[r[1]][c[3]] * (M[r[2]][c[1]] * M[r[3]][c[2]]
                          - M[r[2]][c[2]] * M[r[3]][c[1]])

Without(i) ==
    CASE i = 1 -> <<2, 3, 4>>
      [] i = 2 -> <<1, 3, 4>>
      [] i = 3 -> <<1, 2, 4>>
      [] i = 4 -> <<1, 2, 3>>

Cofactor(M, i, j) ==
    (IF (i + j) % 2 = 0 THEN 1 ELSE -1) * Det3(M, Without(i), Without(j))

Det4(M) ==
    M[1][1] * Cofactor(M, 1, 1) + M[1][2] * Cofactor(M, 1, 2)
        + M[1][3] * Cofactor(M, 1, 3) + M[1][4] * Cofactor(M, 1, 4)

\* DMat4::inverse(): the adjugate over the determinant
Inverse(M) ==
    [num |-> [i \in Idx4 |-> [j \in Idx4 |-> Cofactor(M, j, i)]],
     den |-> Det4(M)]

\* a vector divided by the greatest common divisor of its components
Shortest3(v) ==
    LET g == GCD(v[1], GCD(v[2], v[3]))
    IN  IF g = 0 THEN v ELSE <<v[1] \div g, v[2] \div g, v[3] \div g>>

Shortest4(v) ==
    LET g == GCD(GCD(v[1], v[2]), GCD(v[3], v[4]))
    IN  IF g = 0 THEN v
        ELSE <<v[1] \div g, v[2] \div g, v[3] \div g, v[4] \div g>>

DQuat_IDENTITY == <<<<1, 0, 0>>, <<0, 1, 0>>, <<0, 0, 1>>>>
\* a quarter turn about Z
DQuat_Z90 == <<<<0, -1, 0>>, <<1, 0, 0>>, <<0, 0, 1>>>>

CfgVec3(x, y, z) == <<x * CfgOne, y * CfgOne, z * CfgOne>>
CfgVec3_ONE == CfgVec3(1, 1, 1)

\* DMat4::from_scale_rotation_translation()
from_scale_rotation_translation(scale, rotation, translation) ==
    <<<<rotation[1][1] * scale[1], rotation[1][2] * scale[2],
        rotation[1][3] * scale[3], translation[1]>>,
      <<rotation[2][1] * scale[1], rotation[2][2] * scale[2],
        rotation[2][3] * scale[3], translation[2]>>,
      <<rotation[3][1] * scale[1], rotation[3][2] * scale[2],
        rotation[3][3] * scale[3], translation[3]>>,
      <<0, 0, 0, CfgOne>>>>

\* DMat4::to_scale_rotation_translation(): the scale is the length of the
\* axes, the first negated for a mirroring transform; the rotation is the
\* axes over the scale; the translation is the fourth column
to_scale_rotation_translation(M) ==
    LET det == Det3(M, <<1, 2, 3>>, <<1, 2, 3>>)
        len(j) == ISqrt(M[1][j] * M[1][j] + M[2][j] * M[2][j]
                            + M[3][j] * M[3][j])
        scale == <<len(1) * (IF det < 0 THEN -1 ELSE 1), len(2), len(3)>>
    IN  [s |-> scale,
         r |-> [i \in Idx3 |-> [j \in Idx3 |-> FracDiv(M[i][j], scale[j])]],
         t |-> <<M[1][4], M[2][4], M[3][4]>>]

\* Pos2::default()
Pos2_default == [x |-> 0, y |-> 0, d |-> 1]

\* math::world_to_screen(): None when the point is not in front of the
\* camera (clip w < 1e-10)
world_to_screen(viewport, mvp, pos) ==
    LET clip == Shortest4(MatVec(mvp, <<pos[1], pos[2], pos[3], CfgOne>>))
        px == (2 * viewport.min_x + viewport.width) * clip[4]
                  + clip[1] * viewport.width
        py == (2 * viewport.min_y + viewport.height) * clip[4]
                  - clip[2] * viewport.height
        g == GCD(px, GCD(py, 2 * clip[4]))
    IN  IF clip[4] <= 0 THEN NoneV
        ELSE Some([x |-> px \div g, y |-> py \div g,
                   d |-> (2 * clip[4]) \div g])

\* math::screen_to_world() with mat the inverse of the view-projection:
\* the world point xyz / w; w = 0 stands for the 1e-7 the code puts in
\* place of a vanishing w
screen_to_world(viewport, mat, pos, z) ==
    LET xn == 2 * (pos.x - viewport.min_x * pos.d) - viewport.width * pos.d
        yn == 2 * (pos.y - viewport.min_y * pos.d) - viewport.height * pos.d
        l == viewport.width * viewport.height * pos.d
        v == Shortest4(<<xn * viewport.height, -(yn * viewport.width),
                         z * l, l>>)
        world_pos == Shortest4(MatVec(mat.num, v))
        s == IF world_pos[4] = 0 THEN Sign(mat.den) ELSE Sign(world_pos[4])
    IN  [xyz |-> <<s * world_pos[1], s * world_pos[2], s * world_pos[3]>>,
         w |-> Abs(world_pos[4])]

\* (gizmo_view_near - translation).normalize_or_zero()
EyeToModelDir(gizmo_view_near, translation) ==
    IF gizmo_view_near.w = 0 THEN Shortest3(gizmo_view_near.xyz)
    ELSE Shortest3([i \in Idx3 |->
             CfgOne * gizmo_view_near.xyz[i]
                 - translation[i] * gizmo_view_near.w])

\* a camera on the Z axis that looks at the world origin: view z = world z + z
ViewAlongZ(z) ==
    <<<<1, 0, 0, 0>>, <<0, 1, 0, 0>>, <<0, 0, 1, z>>, <<0, 0, 0, 1>>>>

PerspectiveRH ==
    <<<<2, 0, 0, 0>>, <<0, 2, 0, 0>>, <<0, 0, -1, -1>>, <<0, 0, -1, 0>>>>
PerspectiveLH ==
    <<<<2, 0, 0, 0>>, <<0, 2, 0, 0>>, <<0, 0, 1, -1>>, <<0, 0, 1, 0>>>>
OrthographicRH ==
    <<<<1, 0, 0, 0>>, <<0, 1, 0, 0>>, <<0, 0, -1, -1>>, <<0, 0, 0, 1>>>>

Cameras ==
    {[view_matrix |-> ViewAlongZ(-4), projection_matrix |-> PerspectiveRH],
     [view_matrix |-> ViewAlongZ(-8), projection_matrix |-> PerspectiveRH],
     [view_matrix |-> ViewAlongZ(4), projection_matrix |-> PerspectiveLH],
     [view_matrix |-> ViewAlongZ(-4), projection_matrix |-> OrthographicRH]}

Viewports ==
    {[min_x |-> 0, min_y |-> 0, width |-> 800, height |-> 600],
     [min_x |-> 100, min_y |-> 50, width |-> 400, height |-> 300]}

\* GizmoVisuals::default(): stroke_width 4.0, gizmo_size 75.0
GizmoVisuals_default == [stroke_width |-> 4, gizmo_size |-> 75]

\* GizmoConfig: the fields the working configuration is derived from
RawConfigs ==
    {[view_matrix |-> c.view_matrix,
      projection_matrix |-> c.projection_matrix,
      viewport |-> vp,
      visuals |-> GizmoVisuals_default] : c \in Cameras, vp \in Viewports}

DefaultRawConfig ==
    [view_matrix |-> ViewAlongZ(-4), projection_matrix |-> PerspectiveRH,
     viewport |-> [min_x |-> 0, min_y |-> 0, width |-> 800, height |-> 600],
     visuals |-> GizmoVisuals_default]

\* the target transforms of the host
Targets ==
    {from_scale_rotation_translation(CfgVec3_ONE, DQuat_IDENTITY,
                                     DVec3_ZERO),
     from_scale_rotation_translation(CfgVec3_ONE, DQuat_IDENTITY,
                                     CfgVec3(0, 0, 2)),
     from_scale_rotation_translation(CfgVec3(2, 1, 3), DQuat_Z90,
                                     CfgVec3(0, 0, -2)),
     from_scale_rotation_translation(CfgVec3(1, 2, 1), DQuat_Z90,
                                     CfgVec3(1, 0, 0)),
     from_scale_rotation_translation(CfgVec3(-1, 1, 1), DQuat_IDENTITY,
                                     CfgVec3(0, -1, 1)),
     from_scale_rotation_translation(CfgVec3_ONE, DQuat_IDENTITY,
                                     CfgVec3(0, 0, 6))}

TargetLists == UNION {[1..n -> Targets] : n \in 0..MaxTargets}

\* from_config(): config.rs:131-162
from_config(config) ==
    LET projection_matrix == config.projection_matrix
        view_matrix == config.view_matrix
        view_projection == MatMul(projection_matrix, view_matrix)
        scale_factor ==
            RoundDiv(view_projection[4][4] * 2 * ScaleOne,
                     projection_matrix[1][1] * config.viewport.width)
        focus_distance ==
            FocusDistance(scale_factor, config.visuals.stroke_width)
        left_handed == IF projection_matrix[4][3] = 0
                       THEN projection_matrix[3][3] > 0
                       ELSE projection_matrix[4][3] > 0
    IN  [config |-> config,
         rotation |-> DQuat_IDENTITY,
         translation |-> DVec3_ZERO,
         scale |-> CfgVec3_ONE,
         view_projection |-> view_projection,
         mvp |-> MatScale(view_projection, CfgOne),
         eye_to_model_dir |-> DVec3_ZERO,
         scale_factor |-> scale_factor,
         focus_distance |-> focus_distance,
         left_handed |-> left_handed]

\* the accumulators of update_for_targets before the loop: config.rs:165-169
TargetsAccInit ==
    [scale |-> DVec3_ZERO, translation |-> DVec3_ZERO,
     rotation |-> DQuat_IDENTITY, target_count |-> 0]

\* an iteration that keeps the rotation of the first target
TargetsAccStepFirstRotation(acc, target) ==
    LET srt == to_scale_rotation_translation(target)
    IN  [scale |-> VAdd(acc.scale, srt.s),
         translation |-> VAdd(acc.translation, srt.t),
         rotation |-> IF acc.target_count = 0 THEN srt.r ELSE acc.rotation,
         target_count |-> acc.target_count + 1]

\* one iteration of the loop: config.rs:170-179
TargetsAccStep(acc, target) ==
    LET srt == to_scale_rotation_translation(target)
    IN  [scale |-> VAdd(acc.scale, srt.s),
         translation |-> VAdd(acc.translation, srt.t),
         rotation |-> srt.r,
         target_count |-> acc.target_count + 1]

\* the loop over the first n targets
RECURSIVE TargetsAcc(_, _)
TargetsAcc(targets, n) ==
    IF n = 0 THEN TargetsAccInit
    ELSE TargetsAccStep(TargetsAcc(targets, n - 1), targets[n])

\* DVec3 / f64
VDivN(v, n) == <<RoundDiv(v[1], n), RoundDiv(v[2], n), RoundDiv(v[3], n)>>

\* update_for_targets() that keeps what the earlier call left in self
update_for_targets_patching(self, targets) ==
    LET acc == TargetsAcc(targets, Len(targets))
        target_count == acc.target_count
        scale == IF target_count = 0 THEN self.scale
                 ELSE VDivN(acc.scale, target_count)
        translation == IF target_count = 0 THEN self.translation
                       ELSE VDivN(acc.translation, target_count)
        rotation == IF target_count = 0 THEN self.rotation ELSE acc.rotation
        model_matrix ==
            from_scale_rotation_translation(scale, rotation, translation)
        mvp == MatMul(self.view_projection, model_matrix)
    IN  [self EXCEPT !.mvp = mvp,
                     !.rotation = rotation,
                     !.translation = translation,
                     !.scale = scale]

\* update_for_targets(): config.rs:164-207
update_for_targets(self, targets) ==
    LET acc == TargetsAcc(targets, Len(targets))
        target_count == acc.target_count
        scale == IF target_count = 0 THEN CfgVec3_ONE
                 ELSE VDivN(acc.scale, target_count)
        translation == IF target_count = 0 THEN acc.translation
                       ELSE VDivN(acc.translation, target_count)
        rotation == acc.rotation
        model_matrix ==
            from_scale_rotation_translation(scale, rotation, translation)
        mvp == MatMul(self.view_projection, model_matrix)
        gizmo_screen_pos ==
            UnwrapOr(world_to_screen(self.config.viewport, mvp, translation),
                     Pos2_default)
        gizmo_view_near ==
            screen_to_world(self.config.viewport,
                            Inverse(self.view_projection),
                            gizmo_screen_pos, -1)
    IN  [self EXCEPT !.mvp = mvp,
                     !.rotation = rotation,
                     !.translation = translation,
                     !.scale = scale,
                     !.eye_to_model_dir =
                         EyeToModelDir(gizmo_view_near, translation)]

ConfigInit ==
    /\ prepared = from_config(DefaultRawConfig)
    /\ cfg_targets = NoneV
    /\ cfg_patched = FALSE

rest_vars == <<rot, rot_cfg, rot_active, rot_res, rot_target, drag, pick_in,
               pick_res,
               sc, sc_handle, sc_snap, sc_active, sc_opacity, sc_res>>

\* the host hands over a configuration: the working configuration is built
\* anew from it
FromConfig(config) ==
    /\ prepared' = from_config(config)
    /\ cfg_targets' = NoneV
    /\ cfg_patched' = FALSE
    /\ UNCHANGED rest_vars

\* the per-frame update with the target transforms of the frame
UpdateForTargets(targets) ==
    /\ prepared' = update_for_targets(prepared, targets)
    /\ cfg_targets' = Some(targets)
    /\ cfg_patched' = (prepared # from_config(prepared.config))
    /\ UNCHANGED rest_vars

NextConfig ==
    \/ \E config \in RawConfigs : FromConfig(config)
    \/ \E targets \in TargetLists : UpdateForTargets(targets)

----------------------------------------------------------------------------
Init == RotInit /\ PickInit /\ ScaleInit /\ ConfigInit

\* the picking primitives are pure: every input is tried once
InitPick ==
    /\ RotInit /\ ScaleInit /\ ConfigInit
    /\ pick_res = NoPickRes
    /\ pick_in \in PickInputs

SpecPick == InitPick /\ [][NextPick]_vars

\* one scale handle of each kind and direction
InitScale ==
    /\ RotInit /\ PickInit /\ ConfigInit
    /\ sc = ScaleStateDefault
    /\ sc_handle \in [kind : Kinds, direction : ScaleDirections]
    /\ sc_snap = 0
    /\ sc_active = FALSE
    /\ sc_opacity = 0
    /\ sc_res = NoScaleRes

SpecScale == InitScale /\ [][NextScale]_vars

SpecRotation == Init /\ [][NextRotation]_vars

\* every raw configuration of the host
InitConfig ==
    /\ RotInit /\ PickInit /\ ScaleInit
    /\ \E config \in RawConfigs : prepared = from_config(config)
    /\ cfg_targets = NoneV
    /\ cfg_patched = FALSE

SpecConfig == InitConfig /\ [][NextConfig]_vars

\* One handle is dragged in a behaviour, the rotation handle or one of the
\* scale handles: each handle keeps a state of its own.
NextHandles ==
    \/ /\ sc_res.op = "none"
       /\ sc_handle = [kind |-> "Axis", direction |-> "X"]
       /\ NextRotation
    \/ /\ rot_res.op = "none"
       /\ NextScale

SpecHandles == InitScale /\ [][NextHandles]_vars

----------------------------------------------------------------------------
(* Claims about the rotation handle *)

\* an update() of the rotation handle has just returned a result
RotUpdated == rot_res.op = "update" /\ rot_res.ret = "Some"

\* C1: with snapping off, for a previous angle (last_rotation_angle) and a
\* current angle both in [-PI, PI], the increment angle_delta that update()
\* accumulates is the short-path signed difference: it is congruent to
\* current - previous modulo a full turn and its magnitude is at most a half
\* turn.
C1_ShortPathDelta ==
    (RotUpdated /\ ~rot_res.snapping /\ rot_res.prev \in Angles
        /\ rot.last_rotation_angle \in Angles)
    => /\ (rot_res.angle_delta
             - (rot.last_rotation_angle - rot_res.prev)) % TAU = 0
       /\ Abs(rot_res.angle_delta) <= HalfTurn

\* C1 witness: an update with snapping off that crossed the +/-PI boundary,
\* from just below +PI to just above -PI, and reported the short step
C1_Witness ==
    /\ RotUpdated /\ ~rot_res.snapping
    /\ rot_res.prev = HalfTurn - 1
    /\ rot.last_rotation_angle = 1 - HalfTurn
    /\ rot_res.angle_delta = 2

\* C2: with snapping off in every update since pick() and every step shorter
\* than a half turn, current_delta is the sum of the short-path steps, the
\* unwrapped net angle travelled from the angle at pick to the current one.
C2_AccumulatedNet ==
    (~drag.snapped /\ ~drag.half_step)
    => /\ rot.current_delta = drag.net
       /\ (rot.current_delta - (drag.a - drag.a0)) % TAU = 0
       /\ drag.a = rot.last_rotation_angle
       /\ drag.a0 = rot.start_rotation_angle

\* C2 witness: a drag without snapping whose accumulated delta has grown past
\* a half turn over several updates
C2_Witness ==
    /\ rot_active /\ RotUpdated
    /\ ~drag.snapped /\ ~drag.half_step
    /\ rot.current_delta > HalfTurn
    /\ rot.current_delta = drag.net

----------------------------------------------------------------------------
(* Claims about the picking primitives *)

\* C6: the visibility of the PickResult of pick_arrow, pick_plane and
\* pick_circle lies in [0, 1] for every |eye_to_model_dir . direction| in
\* [0, 1].
C6_VisibilityInUnitInterval ==
    pick_res.fn # "none"
    => (0 <= pick_res.visibility /\ pick_res.visibility <= DotOne)

\* C7 as stated: pick_plane reports picked exactly when the distance from the
\* patch's origin to the intersection is within the half-extent draw_plane
\* uses, plane_size * 0.5.
C7_PickedIffWithinHalfSize ==
    pick_res.fn = "plane"
    => (pick_res.picked <=> pick_in.dist <= draw_plane_scale(pick_in.config))

\* C7 amended: pick_plane reports picked exactly when the handle is not faded
\* out (1 - |dot| below the end of PLANE_FADE, so visibility > 0) and the
\* distance is within plane_size, the full edge length of the drawn patch
\* (twice the half-extent of draw_plane).
C7_PickedIffVisibleWithinSize ==
    pick_res.fn = "plane"
    => (pick_res.picked <=>
          /\ DotOne - pick_in.dot < PLANE_FADE_end
          /\ 10 * pick_in.dist <=
                pick_in.config.scale_factor
                  * (pick_in.config.gizmo_size
                       + 20 * pick_in.config.stroke_width))

\* C7 witness: a visible plane patch is picked at a distance beyond its
\* half-extent
C7_Witness ==
    /\ pick_res.fn = "plane"
    /\ pick_res.picked
    /\ pick_in.dist > draw_plane_scale(pick_in.config)

\* C8 as stated: the visibility of a plane handle fades to zero both edge-on
\* (|dot| = 0) and face-on (|dot| = 1).
C8_FadesAtBothExtremes ==
    (pick_res.fn = "plane" /\ pick_in.dot \in {0, DotOne})
    => (pick_res.visibility <= 0 /\ ~pick_res.picked)

\* C8 amended: the visibility of a plane handle fades at one extreme only.
\* It is full face-on and for every |dot| >= 1 - PLANE_FADE.start (0.30),
\* strictly between 0 and 1 inside the band, and at most zero (the handle is
\* not pickable) for |dot| <= 1 - PLANE_FADE.end (0.14), edge-on.
C8_FadesEdgeOnOnly ==
    pick_res.fn = "plane"
    => /\ pick_in.dot >= DotOne - PLANE_FADE_start
            => pick_res.visibility = DotOne
       /\ pick_in.dot <= DotOne - PLANE_FADE_end
            => (pick_res.visibility <= 0 /\ ~pick_res.picked)
       /\ (pick_in.dot > DotOne - PLANE_FADE_end
             /\ pick_in.dot < DotOne - PLANE_FADE_start)
            => (0 < pick_res.visibility /\ pick_res.visibility < DotOne)

\* C8 witness: a plane handle seen face-on is fully visible and picked
C8_Witness ==
    /\ pick_res.fn = "plane"
    /\ pick_in.dot = DotOne
    /\ pick_res.visibility = DotOne
    /\ pick_res.picked

----------------------------------------------------------------------------
(* Claims about the scale handle *)

\* an update() of the scale handle has just returned a result
ScaleUpdated == sc_res.op = "update" /\ sc_res.ret = "Some"

StartScalePositive == \A i \in 1..3 : sc.start_scale[i] > 0

\* the index of the component along the handle's axis
AxisIndex(direction) ==
    CASE direction = "X" -> 1 [] direction = "Y" -> 2 [] direction = "Z" -> 3

\* C3: for every handle kind and direction, snapping on or off, and every
\* ratio current_distance / start_distance, if the start scale recorded at
\* pick is strictly positive on every axis then every component of the scale
\* update() returns is strictly greater than zero.
C3_ScaleAlwaysPositive ==
    (ScaleUpdated /\ StartScalePositive)
    => \A i \in 1..3 : FPositive(sc_res.scale[i])

\* C3 restricted to the drags whose start distance is not zero: the clamp
\* keeps every component positive for every finite ratio
ScalePositiveWhenStartDistanceNonZero ==
    (ScaleUpdated /\ StartScalePositive /\ sc.start_delta # 0)
    => \A i \in 1..3 : sc_res.scale[i].k = "fin" /\ sc_res.scale[i].v > 0

\* C4: with snapping enabled the ratio is replaced by a nearest integer
\* multiple of snap_scale before it is clamped and made an offset, so the
\* scale along the axis of an Axis handle is start_scale times the snapped
\* (and clamped) ratio; with snapping disabled (or no increment) the raw ratio
\* is used.  snap_scale 0.1 and ratio 1.23 give 1.2.
C4_SnappedRatioApplied ==
    /\ ScaleDelta(FIN(12300), TRUE, 1000) = FIN(12000 - ScaleOne)
    /\ ScaleDelta(FIN(12300), FALSE, 1000) = FIN(12300 - ScaleOne)
    /\ (ScaleUpdated /\ sc_handle.kind = "Axis" /\ sc_res.ratio.k = "fin")
       => LET i == AxisIndex(sc_handle.direction)
              r == sc_res.ratio.v
              applied == IF sc_res.snapping /\ sc_snap > 0
                         THEN {m \in {RoundDiv(r, sc_snap) * sc_snap,
                                      (r \div sc_snap) * sc_snap} :
                                  /\ m % sc_snap = 0
                                  /\ 2 * Abs(m - r) <= sc_snap}
                         ELSE {r}
          IN  /\ \E m \in applied :
                    sc_res.scale[i]
                        = FIN(sc.start_scale[i] * Max(m, MinScaleRatio))
              /\ \A j \in (1..3) \ {i} :
                    sc_res.scale[j] = FIN(sc.start_scale[j] * ScaleOne)

\* C4 witness: an Axis handle is updated with snapping on, the raw ratio is
\* not a multiple of the increment, and the scale along the axis is the start
\* scale times the snapped ratio
C4_Witness ==
    /\ ScaleUpdated /\ sc_handle.kind = "Axis" /\ sc_res.snapping
    /\ sc_snap = ScaleOne \div 10
    /\ sc_res.ratio = FIN(13333)
    /\ sc.start_scale = DVec3_ONE
    /\ sc_res.scale[AxisIndex(sc_handle.direction)] = FIN(ScaleOne * 13000)

----------------------------------------------------------------------------
(* Claims about the working configuration *)

CfgUpdated == IsSome(cfg_targets)

IsPerspective(config) == config.projection_matrix[4][3] # 0

\* the gizmo origin's clip-space w, in CfgOne steps
GizmoClipW(p) == p.mvp[4][4]

\* the pixels the world length scale_factor * gizmo_size covers at the
\* gizmo's depth: length * projection[0] / w * width / 2
ApparentSize(p) ==
    RoundDiv(p.scale_factor * p.config.visuals.gizmo_size
                 * p.config.projection_matrix[1][1]
                 * p.config.viewport.width * CfgOne,
             2 * GizmoClipW(p) * ScaleOne)

\* the gizmo lies on the view axis of the camera, in front of it
OnViewAxis(p) ==
    /\ p.translation[1] = 0
    /\ p.translation[2] = 0
    /\ GizmoClipW(p) > 0

\* C5: for a perspective camera and a gizmo moved along the view axis,
\* scale_factor is proportional to the gizmo origin's clip-space w, so
\* scale_factor * gizmo_size covers gizmo_size pixels at every depth.
C5_ApparentSizeConstant ==
    (CfgUpdated /\ IsPerspective(prepared.config) /\ OnViewAxis(prepared))
        => /\ prepared.scale_factor * prepared.config.projection_matrix[1][1]
                  * prepared.config.viewport.width * CfgOne
              = 2 * GizmoClipW(prepared) * ScaleOne
           /\ ApparentSize(prepared) = prepared.config.visuals.gizmo_size

\* the apparent size is the configured one while the gizmo is at the world
\* origin
ApparentSizeAtWorldOrigin ==
    (IsPerspective(prepared.config) /\ prepared.translation = DVec3_ZERO)
        => ApparentSize(prepared) = prepared.config.visuals.gizmo_size

RECURSIVE DecomposedSum(_, _, _, _)
DecomposedSum(targets, field, i, n) ==
    IF n = 0 THEN 0
    ELSE DecomposedSum(targets, field, i, n - 1)
             + to_scale_rotation_translation(targets[n])[field][i]

\* m is sum / n, to the nearest step
IsMean(m, sum, n) == 2 * Abs(n * m - sum) <= n

\* C9: after update_for_targets, translation and scale are the
\* componentwise arithmetic means of the targets' decomposed translations
\* and scales and rotation is the decomposed rotation of the last target;
\* for an empty list they are (1,1,1), zero and identity.
C9_MeansAndLastRotation ==
    CfgUpdated =>
        LET targets == Unwrap(cfg_targets)
            n == Len(targets)
        IN  IF n = 0
            THEN /\ prepared.scale = CfgVec3_ONE
                 /\ prepared.translation = DVec3_ZERO
                 /\ prepared.rotation = DQuat_IDENTITY
            ELSE /\ \A i \in Idx3 :
                        /\ IsMean(prepared.translation[i],
                                  DecomposedSum(targets, "t", i, n), n)
                        /\ IsMean(prepared.scale[i],
                                  DecomposedSum(targets, "s", i, n), n)
                 /\ prepared.rotation
                        = to_scale_rotation_translation(targets[n]).r

\* several targets whose rotations, scales and translations differ
C9_Witness ==
    /\ CfgUpdated
    /\ Len(Unwrap(cfg_targets)) >= 2
    /\ LET targets == Unwrap(cfg_targets)
           first == to_scale_rotation_translation(targets[1])
           last == to_scale_rotation_translation(targets[Len(targets)])
       IN  /\ first.r # last.r
           /\ first.s # last.s
           /\ first.t # last.t
           /\ prepared.rotation = last.r
           /\ prepared.scale # first.s
           /\ prepared.scale # last.s
           /\ prepared.translation # first.t
           /\ prepared.translation # last.t

\* C10: every derived field is what from_config followed by one
\* update_for_targets with the last targets produces (what from_config
\* produces before the first update).
C10_FunctionOfRawAndTargets ==
    prepared = IF CfgUpdated
               THEN update_for_targets(from_config(prepared.config),
                                       Unwrap(cfg_targets))
               ELSE from_config(prepared.config)

\* an update with no targets of a configuration that an earlier update with
\* targets had moved
C10_Witness ==
    /\ CfgUpdated
    /\ cfg_patched
    /\ Unwrap(cfg_targets) = <<>>
    /\ prepared.translation = DVec3_ZERO
    /\ prepared.mvp = MatScale(prepared.view_projection, CfgOne)

----------------------------------------------------------------------------
(* Claims about the drag state of the handles *)

\* C11: an update() of the rotation handle without a cursor, without a
\* projection of the gizmo's origin or with the cursor on the projected
\* origin, and an update() of the scale handle without a cursor or without
\* a projection, returns no result and leaves the handle's state as it was.
C11_NoResultKeepsState ==
    [][/\ (rot_res'.op = "update"
              /\ rot_res'.pointer.kind \in {"none", "offscreen", "center"})
          => (rot_res'.ret = "None" /\ rot' = rot)
       /\ (sc_res'.op = "update"
              /\ sc_res'.pointer.kind \in {"none", "offscreen"})
          => (sc_res'.ret = "None" /\ sc' = sc)]_vars

\* in the middle of a drag that has turned, an update() with the cursor on
\* the projected origin
C11_Witness ==
    /\ rot_active
    /\ rot_res.op = "update"
    /\ rot_res.pointer.kind = "center"
    /\ rot_res.ret = "None"
    /\ rot.current_delta # 0
    /\ rot.last_rotation_angle # rot.start_rotation_angle

\* C12: update() of the scale handle never returns a scale with an infinite
\* or NaN component, whatever start distance pick() recorded.
C12_ScaleFinite ==
    ScaleUpdated => \A i \in 1..3 : sc_res.scale[i].k = "fin"

\* the scale is finite when the recorded start distance is not zero
ScaleFiniteWhenStartDistanceNonZero ==
    (ScaleUpdated /\ sc.start_delta # 0)
        => \A i \in 1..3 : sc_res.scale[i].k = "fin"

\* the state a pick() that hit has left is that of the frame of the pick
RotationStateFresh ==
    (rot_res.op = "pick" /\ rot_res.ret = "Some")
        => /\ rot.current_delta = 0
           /\ rot.last_rotation_angle = rot.start_rotation_angle
           /\ rot_res.pointer.kind = "at"
                  => rot.start_rotation_angle
                         = IF rot_cfg.flipped THEN -rot_res.pointer.angle
                           ELSE rot_res.pointer.angle

ScaleStateFresh ==
    (sc_res.op = "pick" /\ sc_res.ret = "Some")
        => /\ sc.start_scale = sc_res.config_scale
           /\ sc.start_delta = sc_res.pointer.dist

\* the first update() of a drag, with the pointer where it was at pick()
FirstRotationUpdateUnmoved(snapping) ==
    /\ rot_res.op = "pick" /\ rot_res.ret = "Some"
    /\ RotationUpdate(rot_res.pointer, snapping)

FirstScaleUpdateUnmoved(snapping) ==
    /\ sc_res.op = "pick" /\ sc_res.ret = "Some"
    /\ ScaleUpdate(sc_res.pointer, snapping)

\* C13: after a pick() that hit, whatever an earlier drag left behind, the
\* rotation state has current_delta = 0 and last_rotation_angle =
\* start_rotation_angle = the pointer's screen angle, the scale state has
\* the current config.scale and the pointer's screen distance, and a first
\* update() with the pointer unmoved returns a zero increment and the start
\* scale.
C13_FreshDragState ==
    [][/\ RotationStateFresh'
       /\ ScaleStateFresh'
       /\ \A snapping \in BOOLEAN :
            /\ FirstRotationUpdateUnmoved(snapping)
                   => rot_res'.angle_delta = 0
            /\ FirstScaleUpdateUnmoved(snapping)
                   => \A i \in 1..3 :
                        sc_res'.scale[i] = FIN(sc.start_scale[i] * ScaleOne)
      ]_vars

\* the same with a non-zero start distance of the scale drag
FreshDragStateWhenStartDistanceNonZero ==
    [][/\ RotationStateFresh'
       /\ ScaleStateFresh'
       /\ \A snapping \in BOOLEAN :
            /\ FirstRotationUpdateUnmoved(snapping)
                   => rot_res'.angle_delta = 0
            /\ (FirstScaleUpdateUnmoved(snapping) /\ sc.start_delta # 0)
                   => \A i \in 1..3 :
                        sc_res'.scale[i] = FIN(sc.start_scale[i] * ScaleOne)
      ]_vars

----------------------------------------------------------------------------
(* Claims about the output of the rotation handle *)

\* an update() that ran with snapping on
RotSnapped == RotUpdated /\ rot_res.snapping

\* the increment of the last update() was wrapped by a full turn
RotWrapped ==
    Abs(rot_res.angle_delta - (rot.last_rotation_angle - rot_res.prev)) = TAU

\* C14: after each update() with snapping on, current_delta is an integer
\* multiple of snap_angle, also after an increment that was wrapped by a
\* full turn.
C14_DeltaMultipleOfSnap ==
    RotSnapped => rot.current_delta % rot_cfg.snap_angle = 0

\* what the snapping keeps: after each update() with snapping on, the angle
\* from the start angle of the drag (last_rotation_angle -
\* start_rotation_angle) is an integer multiple of snap_angle, and
\* current_delta differs from it by a whole number of full turns
SnappedFromStartUpToTurns ==
    /\ RotSnapped
           => (rot.last_rotation_angle - rot.start_rotation_angle)
                  % rot_cfg.snap_angle = 0
    /\ (rot.current_delta
           - (rot.last_rotation_angle - rot.start_rotation_angle)) % TAU = 0

\* a snapped update() whose increment was wrapped, with a snap_angle that
\* does not divide the full turn
SnappedWrappedOffGrid ==
    /\ RotSnapped
    /\ RotWrapped
    /\ TAU % rot_cfg.snap_angle # 0
    /\ rot.current_delta % rot_cfg.snap_angle # 0
    /\ (rot.last_rotation_angle - rot.start_rotation_angle)
           % rot_cfg.snap_angle = 0

\* C15: the value of the result of an update() is the handle's normal times
\* the running total with the increment of that update(), the
\* current_delta the state holds after the call.
C15_ValueIsCurrentDelta ==
    RotUpdated => rot_res.value = rot.current_delta

\* the value is the running total before the call
ValueIsDeltaBeforeUpdate ==
    RotUpdated => rot_res.value = rot.current_delta - rot_res.angle_delta

\* C16: in a drag whose results the host applies, the target's rotation is
\* its rotation at pick turned about the handle's normal by minus the
\* accumulated current_delta, every update() returns the rotation of the
\* frame before turned by minus its increment, and the returned scale and
\* translation are those of the configuration.
C16_RotationFollowsDelta ==
    /\ rot_target.rotation = (-rot.current_delta) % TAU
    /\ rot_target.scale = TargetAtPick.scale
    /\ rot_target.translation = TargetAtPick.translation
    /\ RotUpdated
           => /\ rot_res.rotation
                     = (-(rot.current_delta - rot_res.angle_delta)
                            - rot_res.angle_delta) % TAU
              /\ rot_res.rotation = rot_target.rotation
              /\ rot_res.scale = TargetAtPick.scale
              /\ rot_res.translation = TargetAtPick.translation

\* a drag of several updates that has turned the target by more than a half
\* turn
C16_Witness ==
    /\ rot_active /\ RotUpdated
    /\ rot.current_delta = HalfTurn + 1
    /\ rot_res.angle_delta = 1
    /\ rot_target.rotation = HalfTurn - 1
    /\ rot_res.scale = <<5000, 10000, 20000>>

----------------------------------------------------------------------------
(* Claims about the output of the scale handle *)

\* the scale that the start scale and start distance of the drag, the
\* pointer's distance and the snapping settings give
ScaleFromDragStart ==
    NewScale(sc.start_scale,
             ScaleOffset(ScaleDirection(sc_handle.kind, sc_handle.direction),
                         ScaleDelta(FDiv(sc_res.pointer.dist, sc.start_delta),
                                    sc_res.snapping, sc_snap)))

\* C17: the scale update() returns is given by start_scale and start_delta
\* of the drag, the pointer's distance and the snapping settings alone; with
\* the pointer back at the start distance it is the start scale; an Axis
\* handle changes the component along its axis only; rotation and
\* translation are those of the configuration.
C17_ScaleAbsolute ==
    ScaleUpdated =>
        /\ sc_res.scale = ScaleFromDragStart
        /\ sc_res.pointer.dist = sc.start_delta
               => \A i \in 1..3 :
                      sc_res.scale[i] = FIN(sc.start_scale[i] * ScaleOne)
        /\ sc_handle.kind = "Axis"
               => \A i \in 1..3 \ {AxisIndex(sc_handle.direction)} :
                      sc_res.scale[i] = FIN(sc.start_scale[i] * ScaleOne)
        /\ sc_res.rotation = prepared.rotation
        /\ sc_res.translation = prepared.translation

\* the same for a drag whose start distance is not zero
ScaleAbsoluteWhenStartDistanceNonZero ==
    (ScaleUpdated /\ sc.start_delta # 0) =>
        /\ sc_res.scale = ScaleFromDragStart
        /\ sc_res.pointer.dist = sc.start_delta
               => \A i \in 1..3 :
                      sc_res.scale[i] = FIN(sc.start_scale[i] * ScaleOne)
        /\ sc_handle.kind = "Axis"
               => \A i \in 1..3 \ {AxisIndex(sc_handle.direction)} :
                      sc_res.scale[i] = FIN(sc.start_scale[i] * ScaleOne)
        /\ sc_res.rotation = prepared.rotation
        /\ sc_res.translation = prepared.translation

====
